---- MODULE Spec2Model ----
(***************************************************************************)
(* CodeChat AI browser client (frontend application script).               *)
(*                                                                         *)
(* The client is single-threaded and event-driven: every DOM callback and  *)
(* every continuation after an `await` runs to completion.  One action of  *)
(* this model is one such run.  The two awaits of a request                *)
(* (`await fetch(...)` and `await response.json()`) have no code between   *)
(* them, so a request is one "issue" step and one "complete" step, the     *)
(* latter drawing the outcome of the remote call.                          *)
(*                                                                         *)
(* The log entries carry two history fields, `kind` and `call`, and a      *)
(* load request in flight remembers the session state it was issued in.    *)
(*                                                                         *)
(* Strings are sequences of one-character strings.  Texts whose characters *)
(* no code inspects (server messages, fixed templates) are one-token       *)
(* sequences.                                                              *)
(***************************************************************************)
EXTENDS Integers, Sequences, FiniteSets, TLC

(* ----------------------------- bounds ---------------------------------- *)
\* total number of requests (POST /ask and POST /load) issued in a behaviour
MaxRequests == 3
\* number of setTimeout callbacks pending at once
MaxTimers == 1
\* length of the text between the fences of a rendered answer
MaxBody == 3

(* ----------------------------- strings --------------------------------- *)
\* JavaScript null and undefined, kept apart from every string
Null == <<"#null">>
Undefined == <<"#undefined">>

IsSpace(c) == c = " "

RECURSIVE TrimStart(_)
TrimStart(s) ==
    IF s = <<>> THEN <<>>
    ELSE IF IsSpace(Head(s)) THEN TrimStart(Tail(s)) ELSE s

RECURSIVE TrimEnd(_)
TrimEnd(s) ==
    IF s = <<>> THEN <<>>
    ELSE IF IsSpace(s[Len(s)]) THEN TrimEnd(SubSeq(s, 1, Len(s) - 1)) ELSE s

\* String.prototype.trim
Trim(s) == TrimEnd(TrimStart(s))

\* div.textContent = c; div.innerHTML
EscapeChar(c) ==
    IF c = "&" THEN <<"&", "a", "m", "p", ";">>
    ELSE IF c = "<" THEN <<"&", "l", "t", ";">>
    ELSE IF c = ">" THEN <<"&", "g", "t", ";">>
    ELSE <<c>>

\* no escaping: the text goes into the markup as it is
escapeHtml_raw(text) == text

RECURSIVE escapeHtml(_)
escapeHtml(text) ==
    IF text = <<>> THEN <<>>
    ELSE EscapeChar(Head(text)) \o escapeHtml(Tail(text))

IsSep(c) == c = "/" \/ c = "\\"

\* path.split(/[\\/]/).pop(): the text after the last separator
RECURSIVE getBasename(_)
getBasename(path) ==
    IF \E i \in 1..Len(path) : IsSep(path[i])
    THEN getBasename(Tail(path))
    ELSE path

(* ---------------------------- formatAnswer ---------------------------- *)
\* A text is a sequence of characters; the markup a rule writes is one
\* element of the sequence, which none of the character classes of the
\* later rules tells apart from the characters it stands for.
\* the character U+0060, which a string of this language cannot hold
Backtick == "U+0060"

\* the fence of a code block: three of them
Fence == << Backtick, Backtick, Backtick >>

\* the characters of the texts below that \w matches
IsWord(c) == c \in {"a", "j"}

\* least i >= from at which p occurs in s, 0 when there is none
IndexOf(s, p, from) ==
    LET I == { i \in from..(Len(s) - Len(p) + 1) :
                 SubSeq(s, i, i + Len(p) - 1) = p }
    IN  IF I = {} THEN 0 ELSE CHOOSE i \in I : \A j \in I : i <= j

\* least i >= from at which s has no \w character, Len(s) + 1 at most
WordEnd(s, from) ==
    LET I == { i \in from..Len(s) : ~IsWord(s[i]) }
    IN  IF I = {} THEN Len(s) + 1 ELSE CHOOSE i \in I : \A j \in I : i <= j

\* /```(\w+)?\n/ at the start of s: the position after the newline, 0
\* when s does not start with an opening fence line
FenceBodyStart(s) ==
    IF Len(s) >= 3 /\ SubSeq(s, 1, 3) = Fence
    THEN LET k == WordEnd(s, 4)
         IN  IF k <= Len(s) /\ s[k] = "\n" THEN k + 1 ELSE 0
    ELSE 0

\* /```(\w+)?\n([\s\S]*?)```/ at the start of s: the position of the
\* closing fence, the first one after the opening line; 0 when there is no
\* match at the start of s
FenceClose(s) ==
    IF FenceBodyStart(s) = 0 THEN 0 ELSE IndexOf(s, Fence, FenceBodyStart(s))

\* .replace(/```(\w+)?\n([\s\S]*?)```/g, '<pre><code>$2</code></pre>')
RECURSIVE codeBlocks(_)
codeBlocks(s) ==
    IF s = <<>> THEN <<>>
    ELSE IF FenceClose(s) = 0 THEN <<Head(s)>> \o codeBlocks(Tail(s))
    ELSE << "<pre><code>" >>
         \o SubSeq(s, FenceBodyStart(s), FenceClose(s) - 1)
         \o << "</code></pre>" >>
         \o codeBlocks(SubSeq(s, FenceClose(s) + 3, Len(s)))

\* /c{n}([^c]+)c{n}/ at the start of s, for a delimiter of n characters c:
\* the position of the closing delimiter, 0 when there is no match at the
\* start of s.  The group takes every character up to the next c.
SpanClose(s, c, n) ==
    IF /\ Len(s) >= 2 * n + 1
       /\ \A i \in 1..n : s[i] = c
       /\ s[n + 1] # c
    THEN LET j == IndexOf(s, <<c>>, n + 2)
         IN  IF /\ j # 0
                /\ j + n - 1 <= Len(s)
                /\ \A i \in j..(j + n - 1) : s[i] = c
             THEN j ELSE 0
    ELSE 0

\* .replace(/c{n}([^c]+)c{n}/g, open + '$1' + close)
RECURSIVE ReplaceSpans(_, _, _, _, _)
ReplaceSpans(s, c, n, open, close) ==
    IF s = <<>> THEN <<>>
    ELSE IF SpanClose(s, c, n) = 0
    THEN <<Head(s)>> \o ReplaceSpans(Tail(s), c, n, open, close)
    ELSE <<open>>
         \o SubSeq(s, n + 1, SpanClose(s, c, n) - 1)
         \o <<close>>
         \o ReplaceSpans(SubSeq(s, SpanClose(s, c, n) + n, Len(s)),
                         c, n, open, close)

\* .replace(/`([^`]+)`/g, '<code>$1</code>')
inlineCode(s) == ReplaceSpans(s, Backtick, 1, "<code>", "</code>")
\* .replace(/\*\*([^*]+)\*\*/g, '<strong>$1</strong>')
bold(s) == ReplaceSpans(s, "*", 2, "<strong>", "</strong>")
\* .replace(/\*([^*]+)\*/g, '<em>$1</em>')
italic(s) == ReplaceSpans(s, "*", 1, "<em>", "</em>")

\* .replace(/\n\n/g, '</p><p>')
RECURSIVE paragraphBreaks(_)
paragraphBreaks(s) ==
    IF s = <<>> THEN <<>>
    ELSE IF Len(s) >= 2 /\ s[1] = "\n" /\ s[2] = "\n"
    THEN << "</p><p>" >> \o paragraphBreaks(SubSeq(s, 3, Len(s)))
    ELSE <<Head(s)>> \o paragraphBreaks(Tail(s))

\* .replace(/\n/g, '<br>')
lineBreaks(s) == [ i \in 1..Len(s) |-> IF s[i] = "\n" THEN "<br>" ELSE s[i] ]

\* the markup the rules write; each of them starts with '<'
Markup == { "<pre><code>", "</code></pre>", "<code>", "</code>", "<strong>",
            "</strong>", "<em>", "</em>", "</p><p>", "<br>" }

\* html.startsWith('<')
StartsWithLt(s) == s # <<>> /\ (Head(s) = "<" \/ Head(s) \in Markup)

\* formatAnswer(text)
formatAnswer(text) ==
    LET html == lineBreaks(paragraphBreaks(italic(bold(inlineCode(
                    codeBlocks(text))))))
    IN  IF ~StartsWithLt(html) THEN <<"<p>">> \o html \o <<"</p>">> ELSE html

(* ------------------------- inputs of the model ------------------------- *)
\* values of the path input when loadRepository reads it
PathInputs == { <<" ">>, <<" ", "r", "/", "a">> }
\* what the user can have typed into the message input
MessageInputs == { <<" ">>, <<" ", "<">> }
\* data-question attributes of the quick-question buttons
QuickQuestions == { <<>>, <<" ", "<">> }
\* repository_path values a GET /status reply can carry
ServerPaths == { <<"s", "/", "c">> }

\* values Date.now() can return (wall-clock milliseconds: two reads may
\* return the same value, and a later read a smaller one when the clock is
\* adjusted)
ClockValues == { 0, 1 }

\* Outcomes of a request.  "throws": fetch rejects (the service cannot be
\* reached) or response.json() rejects (the body is not JSON).
\* "httpDetail": a non-2xx reply; its body parses.  The other outcomes are
\* 2xx replies whose body parses.
\* outcomes of POST /load; "okNoStats": the body has no `stats` member
LoadOutcomes == { "ok", "okNoStats", "httpDetail", "throws" }
\* outcomes of POST /ask; "okNoAnswer": the body has no `answer` member
AskOutcomes == { "ok", "okNoAnswer", "httpDetail", "throws" }
\* outcomes of GET /status; "loadedNoPath": repository_loaded is true and
\* the body has no `repository_path` member
StatusOutcomes == { "loaded", "loadedNoPath", "notLoaded", "throws" }

(* ------------------------------ state ---------------------------------- *)
VARIABLES
    repositoryLoaded,     \* state.repositoryLoaded
    isLoading,            \* state.isLoading
    currentPath,          \* state.currentPath
    messageInputValue,    \* elements.messageInput.value
    messageInputDisabled, \* elements.messageInput.disabled
    sendBtnDisabled,      \* elements.sendBtn.disabled
    repoStatus,           \* class and text of elements.repoStatus
    overlayHidden,        \* elements.loadingOverlay has class 'hidden'
    messages,             \* children of elements.messages, in document order
    loads,                \* POST /load requests in flight
    asks,                 \* POST /ask requests in flight
    probe,                \* GET /status of checkStatus: "pending" or "done"
    timers,               \* pending setTimeout callbacks of showError
    loadCount,            \* load requests issued so far
    askCount,             \* ask requests issued so far
    answer,               \* formatAnswer: its argument
    answerHtml            \* formatAnswer: what it returned, Null before

vars == << repositoryLoaded, isLoading, currentPath, messageInputValue,
           messageInputDisabled, sendBtnDisabled, repoStatus, overlayHidden,
           messages, loads, asks, probe, timers, loadCount, askCount,
           answer, answerHtml >>

\* the renderer on its own: the client keeps the kind of an assistant
\* entry, not its markup, and leaves these two as they are
renderer == << answer, answerHtml >>

\* the three fields of `state`
sessionState == << repositoryLoaded, isLoading, currentPath >>

(* --------------------------- UI functions ------------------------------ *)
\* the id attribute of an element created without one
NoId == <<"", 0>>

\* addMessage(role, content) appends one entry.  `kind` names the template
\* of the content (of an assistant entry only the template is kept, not the
\* text substituted into it); `call` is the number of the ask request the
\* entry belongs to, 0 for the entries of a load.
addMessage(log, role, kind, call, content) ==
    Append(log, [role |-> role, kind |-> kind, call |-> call,
                 id |-> NoId, content |-> content])

\* showTypingIndicator appends the placeholder with id 'typing-' + Date.now()
showTypingIndicator(log, call, t) ==
    Append(log, [role |-> "assistant", kind |-> "typing", call |-> call,
                 id |-> <<"typing-", t>>, content |-> <<"typing-indicator">>])

\* position of the first element with this id, 0 when there is none
IndexOfId(log, id) ==
    IF \E i \in 1..Len(log) : log[i].id = id
    THEN CHOOSE i \in 1..Len(log) :
            /\ log[i].id = id
            /\ \A j \in 1..(i - 1) : log[j].id # id
    ELSE 0

\* removeTypingIndicator with the test inverted: `if (!indicator)`
removeTypingIndicator_inverted(log, id) == log

\* removeTypingIndicator that removes the last child of the log
removeTypingIndicator_tail(log, id) ==
    IF log = <<>> THEN log ELSE SubSeq(log, 1, Len(log) - 1)

\* removeTypingIndicator that looks for the indicator at the end of the
\* log only
removeTypingIndicator_lastOnly(log, id) ==
    IF log # <<>> /\ log[Len(log)].id = id
    THEN SubSeq(log, 1, Len(log) - 1)
    ELSE log

\* removeTypingIndicator(id): document.getElementById(id), then remove()
removeTypingIndicator(log, id) ==
    LET i == IndexOfId(log, id)
    IN  IF i = 0 THEN log
        ELSE SubSeq(log, 1, i - 1) \o SubSeq(log, i + 1, Len(log))

\* updateRepoStatus(status, text)
updateRepoStatus(status, text) == [class |-> status, text |-> text]

\* enableChat that forgets the message input
enableChat_sendOnly ==
    /\ sendBtnDisabled' = FALSE
    /\ UNCHANGED messageInputDisabled

\* enableChat(): a handler that calls it ends with both controls enabled
enableChat ==
    /\ messageInputDisabled' = FALSE
    /\ sendBtnDisabled' = FALSE

\* disableSend()
disableSend == sendBtnDisabled' = TRUE

\* enableSend that leaves the button as it is
enableSend_noop == UNCHANGED sendBtnDisabled

\* enableSend()
enableSend == sendBtnDisabled' = FALSE

(* ------------------------------ Init ----------------------------------- *)
\* The state after DOMContentLoaded: listeners installed, checkStatus has
\* issued GET /status.  The markup decides whether the message input and
\* the send button start disabled, and it is not part of the script, so
\* both initial values are left open.
Init ==
    /\ repositoryLoaded = FALSE
    /\ isLoading = FALSE
    /\ currentPath = Null
    /\ messageInputValue = <<>>
    /\ messageInputDisabled \in BOOLEAN
    /\ sendBtnDisabled \in BOOLEAN
    /\ repoStatus = updateRepoStatus("", <<"No repository loaded">>)
    /\ overlayHidden = TRUE
    /\ messages = <<>>
    /\ loads = {}
    /\ asks = {}
    /\ probe = "pending"
    /\ timers = 0
    /\ loadCount = 0
    /\ askCount = 0
    /\ answer = <<>>
    /\ answerHtml = Null

(* ----------------------- texts the handlers show ----------------------- *)
\* `<p>${escapeHtml(question)}</p>` of the user entry
UserContent(question) == <<"<p>">> \o escapeHtml(question) \o <<"</p>">>

\* error.message in the catch block of loadRepository: the detail of a
\* non-2xx reply, else the message of the exception that was thrown
LoadErrorMessage(outcome) ==
    IF outcome = "httpDetail" THEN <<"<", "d">> ELSE <<"exception message">>

(* ------------------------------ showError ------------------------------ *)
\* showError(message): error status now, a reversion callback in 3000 ms
showError(message) ==
    /\ timers < MaxTimers
    /\ repoStatus' = updateRepoStatus("error", message)
    /\ timers' = timers + 1

\* a callback without the test of state.repositoryLoaded
revertedStatus_unguarded ==
    updateRepoStatus("", <<"No repository loaded">>)

\* the status the callback leaves:
\* `if (!state.repositoryLoaded) updateRepoStatus('', 'No repository loaded')`
revertedStatus ==
    IF ~repositoryLoaded
    THEN updateRepoStatus("", <<"No repository loaded">>)
    ELSE repoStatus

\* the setTimeout callback of showError
TimerFire ==
    /\ timers > 0
    /\ timers' = timers - 1
    /\ repoStatus' = revertedStatus
    /\ UNCHANGED << repositoryLoaded, isLoading, currentPath,
                    messageInputValue, messageInputDisabled, sendBtnDisabled,
                    overlayHidden, messages, loads, asks, probe, loadCount,
                    askCount, renderer >>

(* --------------------------- loadRepository ---------------------------- *)
\* a local check that also turns a trigger down while a load is in flight
pathRejected_whileLoading(path) == path = <<>> \/ loads # {}

\* the local check left out
pathRejected_never(path) == FALSE

\* `if (!path)`: the local check of loadRepository
pathRejected(path) == path = <<>>

\* a catch block that resets the flag
loadedAfterLoad_resetOnFailure(outcome) ==
    outcome \in {"ok", "okNoStats"}

\* state.repositoryLoaded when loadRepository ends: the assignment is
\* reached by every 2xx reply whose body parses, and the catch block does
\* not touch the field
loadedAfterLoad(outcome) ==
    IF outcome \in {"ok", "okNoStats"} THEN TRUE ELSE repositoryLoaded

\* state.currentPath when loadRepository ends
pathAfterLoad(l, outcome) ==
    IF outcome \in {"ok", "okNoStats"} THEN l.path ELSE currentPath

\* load button click, or Enter in the path input: loadRepository up to its
\* first await.  `value` is elements.repoPath.value as the handler reads
\* it.  The path input is never disabled and nothing but this read uses its
\* value, so the value is an input of the handler: what the user typed last,
\* or the non-empty path checkStatus put there.
LoadRepository(value) ==
    LET path == Trim(value)
    IN  IF pathRejected(path)
        THEN /\ showError(<<"Please enter a repository path">>)
             /\ UNCHANGED << repositoryLoaded, isLoading, currentPath,
                             messageInputValue, messageInputDisabled,
                             sendBtnDisabled, overlayHidden, messages, loads,
                             asks, probe, loadCount, askCount, renderer >>
        ELSE /\ loadCount + askCount < MaxRequests
             /\ overlayHidden' = FALSE
             /\ repoStatus' = updateRepoStatus("loading", <<"Scanning files...">>)
             /\ loads' = loads \cup
                    { [call |-> loadCount + 1, path |-> path,
                       preLoaded |-> repositoryLoaded, prePath |-> currentPath] }
             /\ loadCount' = loadCount + 1
             /\ UNCHANGED << repositoryLoaded, isLoading, currentPath,
                             messageInputValue, messageInputDisabled,
                             sendBtnDisabled, messages, asks, probe, timers,
                             askCount, renderer >>

\* a catch block without its call of updateRepoStatus: the status stays
\* as the try block left it
failureStatus_missing(l, outcome) ==
    IF outcome = "okNoStats"
    THEN updateRepoStatus("loaded", <<"Loaded: ">> \o getBasename(l.path))
    ELSE repoStatus

\* the status a failed load ends with: `updateRepoStatus('error',
\* error.message)` of the catch block.  "okNoStats" sets the 'loaded'
\* status before data.stats.vectors throws; the catch block overwrites it.
failureStatus(l, outcome) ==
    updateRepoStatus("error", LoadErrorMessage(outcome))

\* loadRepository from the completion of POST /load to its end
LoadComplete(l, outcome) ==
    /\ l \in loads
    /\ loads' = loads \ {l}
    /\ overlayHidden' = TRUE
    /\ repositoryLoaded' = loadedAfterLoad(outcome)
    /\ currentPath' = pathAfterLoad(l, outcome)
    /\ IF outcome = "ok"
       THEN /\ repoStatus' = updateRepoStatus("loaded",
                                <<"Loaded: ">> \o getBasename(l.path))
            /\ enableChat
            /\ messages' = addMessage(messages, "assistant", "loadOk", 0,
                                      <<"Repository loaded successfully!">>)
       ELSE /\ repoStatus' = failureStatus(l, outcome)
            /\ messages' = addMessage(messages, "assistant", "loadFail", 0,
                                      <<"Failed to load repository">>)
            /\ UNCHANGED << messageInputDisabled, sendBtnDisabled >>
    /\ UNCHANGED << isLoading, messageInputValue, asks, probe, timers,
                    loadCount, askCount, renderer >>

(* ------------------------------ sendMessage ---------------------------- *)
\* what the message input can hold when a handler reads it: what it held,
\* or, unless it is disabled, what the user typed just before
MessageValues ==
    IF messageInputDisabled THEN {messageInputValue}
    ELSE MessageInputs \cup {messageInputValue}

\* the check without its isLoading disjunct
sendRejected_noLoadingCheck(question) ==
    question = <<>> \/ ~repositoryLoaded

\* the check without its repositoryLoaded disjunct
sendRejected_noLoadedCheck(question) ==
    question = <<>> \/ isLoading

\* `if (!question || !state.repositoryLoaded || state.isLoading) return`
sendRejected(question) ==
    question = <<>> \/ ~repositoryLoaded \/ isLoading

\* sendMessage up to its first await, with `value` in the message input
sendMessage(value) ==
    LET question == Trim(value)
    IN  IF sendRejected(question)
        THEN /\ messageInputValue' = value
             /\ UNCHANGED << repositoryLoaded, isLoading, currentPath,
                             messageInputDisabled, sendBtnDisabled,
                             repoStatus, overlayHidden, messages, loads, asks,
                             probe, timers, loadCount, askCount, renderer >>
        ELSE /\ loadCount + askCount < MaxRequests
             /\ \E t \in ClockValues :
                   /\ messages' = showTypingIndicator(
                          addMessage(messages, "user", "question",
                                     askCount + 1, UserContent(question)),
                          askCount + 1, t)
                   /\ asks' = asks \cup
                          { [call |-> askCount + 1, typingId |-> <<"typing-", t>>,
                             question |-> question] }
             /\ messageInputValue' = <<>>
             /\ isLoading' = TRUE
             /\ disableSend
             /\ askCount' = askCount + 1
             /\ UNCHANGED << repositoryLoaded, currentPath,
                             messageInputDisabled, repoStatus, overlayHidden,
                             loads, probe, timers, loadCount, renderer >>

\* click on the send button
SendClick(value) ==
    /\ ~sendBtnDisabled
    /\ sendMessage(value)

\* Enter without Shift in the message input
EnterKey(value) ==
    /\ ~messageInputDisabled
    /\ sendMessage(value)

\* click on a quick-question button carrying data-question = q
QuickClick(q) ==
    IF repositoryLoaded /\ q # <<>>
    THEN sendMessage(q)
    ELSE UNCHANGED << repositoryLoaded, isLoading, currentPath,
                      messageInputValue, messageInputDisabled,
                      sendBtnDisabled, repoStatus, overlayHidden, messages,
                      loads, asks, probe, timers, loadCount, askCount,
                      renderer >>

\* a catch block that also shows the failure in the status indicator
statusAfterAsk_error(outcome) ==
    IF outcome = "ok" THEN repoStatus
    ELSE updateRepoStatus("error", <<"Error">>)

\* the status indicator when sendMessage ends: neither the try block nor
\* the catch block nor the finally block calls updateRepoStatus
statusAfterAsk(outcome) == repoStatus

\* sendMessage from the completion of POST /ask to its end
AskComplete(a, outcome) ==
    LET afterRemove == removeTypingIndicator(messages, a.typingId)
        \* the catch block removes the indicator again
        afterCatch  == removeTypingIndicator(afterRemove, a.typingId)
    IN  /\ a \in asks
        /\ asks' = asks \ {a}
        /\ messages' =
              IF outcome = "ok"
              THEN addMessage(afterRemove, "assistant", "answer", a.call,
                              <<"answer">>)
              ELSE addMessage(IF outcome = "okNoAnswer" THEN afterCatch
                                                         ELSE afterRemove,
                              "assistant", "error", a.call, <<"Error">>)
        /\ repoStatus' = statusAfterAsk(outcome)
        /\ isLoading' = FALSE
        /\ enableSend
        /\ UNCHANGED << repositoryLoaded, currentPath, messageInputValue,
                        messageInputDisabled, overlayHidden, loads, probe,
                        timers, loadCount, askCount, renderer >>

(* ------------------------------ checkStatus ---------------------------- *)
\* checkStatus from the completion of GET /status to its end
StatusReply(outcome, p) ==
    /\ probe = "pending"
    /\ probe' = "done"
    /\ CASE outcome = "loaded" ->
              /\ repositoryLoaded' = TRUE
              /\ currentPath' = p
              /\ repoStatus' = updateRepoStatus("loaded",
                                  <<"Loaded: ">> \o getBasename(p))
              /\ enableChat
         [] outcome = "loadedNoPath" ->
              \* getBasename(undefined) throws after the assignments to
              \* state; the catch block only logs
              /\ repositoryLoaded' = TRUE
              /\ currentPath' = Undefined
              /\ UNCHANGED << repoStatus, messageInputDisabled,
                              sendBtnDisabled >>
         [] OTHER ->
              UNCHANGED << repositoryLoaded, currentPath, repoStatus,
                           messageInputDisabled, sendBtnDisabled >>
    /\ UNCHANGED << isLoading, messageInputValue, overlayHidden, messages,
                    loads, asks, timers, loadCount, askCount, renderer >>

(* ------------------------------- Next ---------------------------------- *)
Next ==
    \/ \E v \in PathInputs : LoadRepository(v)
    \/ \E l \in loads, o \in LoadOutcomes : LoadComplete(l, o)
    \/ \E v \in MessageValues : SendClick(v)
    \/ \E v \in MessageValues : EnterKey(v)
    \/ \E q \in QuickQuestions : QuickClick(q)
    \/ \E a \in asks, o \in AskOutcomes : AskComplete(a, o)
    \/ \E o \in StatusOutcomes, p \in ServerPaths : StatusReply(o, p)
    \/ TimerFire

Spec == Init /\ [][Next]_vars

TypeOK ==
    /\ repositoryLoaded \in BOOLEAN
    /\ isLoading \in BOOLEAN
    /\ repoStatus.class \in {"", "loading", "loaded", "error"}
    /\ timers \in 0..MaxTimers
    /\ loadCount \in 0..MaxRequests
    /\ askCount \in 0..MaxRequests

(* --------------------------- the renderer alone ------------------------ *)
\* the characters of an answer: a letter, the two markers of the inline
\* rules and the line break
AnswerChars == { "a", "*", Backtick, "\n" }

\* the texts of at most n of these characters
RECURSIVE TextsUpTo(_)
TextsUpTo(n) ==
    IF n = 0 THEN { <<>> }
    ELSE TextsUpTo(n - 1)
         \cup { <<c>> \o t : c \in AnswerChars,
                              t \in { u \in TextsUpTo(n - 1) : Len(u) = n - 1 } }

\* what stands before the opening fence, the optional language tag, and
\* what follows the closing fence
Prefixes == { <<>>, <<"a">>, <<"*">> }
LanguageTags == { <<>>, <<"j">> }
Suffixes == { <<>>, <<"*">>, <<Backtick>> }

\* data.answer of a reply to POST /ask: a short text, or a text with a
\* fenced code block
Answers ==
    TextsUpTo(MaxBody)
    \cup { pre \o Fence \o tag \o <<"\n">> \o body \o Fence \o post :
              pre \in Prefixes, tag \in LanguageTags,
              body \in TextsUpTo(MaxBody), post \in Suffixes }

\* an answer has arrived and formatAnswer has not been called yet; the
\* client is as Init leaves it and takes no step
FormatInit ==
    /\ answer \in Answers
    /\ answerHtml = Null
    /\ repositoryLoaded = FALSE
    /\ isLoading = FALSE
    /\ currentPath = Null
    /\ messageInputValue = <<>>
    /\ messageInputDisabled = TRUE
    /\ sendBtnDisabled = TRUE
    /\ repoStatus = updateRepoStatus("", <<"No repository loaded">>)
    /\ overlayHidden = TRUE
    /\ messages = <<>>
    /\ loads = {}
    /\ asks = {}
    /\ probe = "pending"
    /\ timers = 0
    /\ loadCount = 0
    /\ askCount = 0

\* `let answerHtml = formatAnswer(data.answer)`
FormatAnswer ==
    /\ answerHtml = Null
    /\ answerHtml' = formatAnswer(answer)
    /\ UNCHANGED << answer, repositoryLoaded, isLoading, currentPath,
                    messageInputValue, messageInputDisabled, sendBtnDisabled,
                    repoStatus, overlayHidden, messages, loads, asks, probe,
                    timers, loadCount, askCount >>

FormatNext == FormatAnswer

FormatSpec == FormatInit /\ [][FormatNext]_vars

(* ======================= properties of the client ====================== *)
\* a typing placeholder, the one entry of the log that does not stay
IsTyping(e) == e.kind = "typing"

\* positions of the permanent entries of ask call c
EntriesOf(c) ==
    { i \in 1..Len(messages) : messages[i].call = c /\ ~IsTyping(messages[i]) }

\* every value sendMessage can read from the message input
AllMessageValues == MessageInputs \cup QuickQuestions \cup {<<>>}

\* the outcomes of POST /load that end in the catch block
LoadFailures == LoadOutcomes \ {"ok"}

\* C1: at most one POST /ask is in flight at any time, whatever the
\* interleaving of send clicks, Enter presses, quick-question clicks, load
\* calls and network completions.
C1_OneAskInFlight == Cardinality(asks) <= 1

\* a non-empty question was submitted while an ask was in flight (it is
\* still in the input: an accepted question is cleared), and the ask is
\* still the only one
C1_Witness ==
    /\ Cardinality(asks) = 1
    /\ isLoading
    /\ Trim(messageInputValue) # <<>>

\* C2: sendMessage is a silent no-op whenever the trimmed question is
\* empty, or repositoryLoaded is false, or isLoading is true: no request is
\* issued, and the log, the session state and the status are unchanged.
C2_RejectedSendIsNoop ==
    [][ \A v \in AllMessageValues :
          ( /\ sendMessage(v)
            /\ \/ Trim(v) = <<>>
               \/ ~repositoryLoaded
               \/ isLoading )
          => UNCHANGED << messages, repositoryLoaded, isLoading, currentPath,
                          repoStatus, asks, loads, timers >> ]_vars

\* a non-empty question was submitted with no repository loaded, and
\* nothing came of it
C2_Witness ==
    /\ Trim(messageInputValue) # <<>>
    /\ ~repositoryLoaded
    /\ ~isLoading
    /\ messages = <<>>
    /\ asks = {}

\* C3: repositoryLoaded is monotonic: once true it stays true, whatever
\* load successes and failures, ask failures, empty-path errors, timer
\* firings and status replies follow.
C3_LoadedIsMonotonic == [][ repositoryLoaded => repositoryLoaded' ]_vars

\* a load failed without a detail of the service after another load had
\* succeeded, and the repository is still loaded
C3_Witness ==
    /\ repositoryLoaded
    /\ repoStatus = updateRepoStatus("error", LoadErrorMessage("throws"))
    /\ \E i, j \in 1..Len(messages) :
          /\ i < j
          /\ messages[i].kind = "loadOk"
          /\ messages[j].kind = "loadFail"

\* C4: a load that ends in the failure outcome (error status plus the
\* failure message) leaves repositoryLoaded and currentPath at the values
\* they had just before the call started.
C4_FailedLoadKeepsState ==
    [][ \A l \in loads, o \in LoadFailures :
          LoadComplete(l, o) =>
              /\ repositoryLoaded' = l.preLoaded
              /\ currentPath' = l.prePath ]_vars

\* C5: when a load for a non-empty trimmed path completes successfully,
\* its completion handler ends with repositoryLoaded true, currentPath that
\* path, status 'loaded', chat input enabled, and the log longer by exactly
\* one assistant entry, the success message.
C5_LoadSuccess ==
    [][ \A l \in loads :
          LoadComplete(l, "ok") =>
              /\ l.path # <<>>
              /\ l.path = Trim(l.path)
              /\ repositoryLoaded'
              /\ currentPath' = l.path
              /\ repoStatus'.class = "loaded"
              /\ ~messageInputDisabled'
              /\ ~sendBtnDisabled'
              /\ Len(messages') = Len(messages) + 1
              /\ SubSeq(messages', 1, Len(messages)) = messages
              /\ messages'[Len(messages')].role = "assistant"
              /\ messages'[Len(messages')].kind = "loadOk" ]_vars

\* the load of " r/a" has just succeeded: its entry is the tail of the log
C5_Witness ==
    /\ repositoryLoaded
    /\ currentPath = <<"r", "/", "a">>
    /\ repoStatus.class = "loaded"
    /\ messages # <<>>
    /\ messages[Len(messages)].kind = "loadOk"

\* C6: for every accepted ask, the typing placeholder is in the log when
\* the request is issued, it is removed before the terminal assistant
\* message is appended, and none of that call remains once the handler has
\* finished.
C6_TypingLifecycle ==
    /\ [] ( \A a \in asks :
              \E i \in 1..Len(messages) :
                  /\ IsTyping(messages[i])
                  /\ messages[i].id = a.typingId
                  /\ messages[i].call = a.call )
    /\ [][ \A a \in asks, o \in AskOutcomes :
             AskComplete(a, o) =>
                 LET n == Len(messages')
                 IN  \* the terminal entry is the new tail
                     /\ n > 0
                     /\ messages'[n].call = a.call
                     /\ messages'[n].kind \in {"answer", "error"}
                     \* the log it was appended to is the old log without
                     \* the placeholder of the call
                     /\ n = Len(messages)
                     /\ \A i \in 1..(n - 1) :
                           /\ messages'[i] \in { messages[j] : j \in 1..n }
                           /\ ~( IsTyping(messages'[i])
                                 /\ messages'[i].call = a.call ) ]_vars

\* an ask has completed: its two entries are in the log and no placeholder
C6_Witness ==
    /\ askCount >= 1
    /\ asks = {}
    /\ Cardinality(EntriesOf(1)) = 2
    /\ \A i \in 1..Len(messages) : ~IsTyping(messages[i])

\* C7: a typing placeholder that is in the log is its last entry, also
\* when a load starts or completes while an ask is in flight.
C7_TypingIsTail ==
    \A i \in 1..Len(messages) : IsTyping(messages[i]) => i = Len(messages)

\* C8: every accepted ask whose remote call completes, in whatever way,
\* ends with isLoading false and the submit control enabled, so that a
\* later non-empty question is accepted.
C8_AskRestoresIdle ==
    [][ \A a \in asks, o \in AskOutcomes :
          AskComplete(a, o) =>
              /\ ~isLoading'
              /\ ~sendBtnDisabled'
              /\ repositoryLoaded' ]_vars

\* the second ask of a session has completed: the question submitted after
\* the first completion was accepted, and the client is idle again
C8_Witness ==
    /\ askCount = 2
    /\ asks = {}
    /\ Cardinality(EntriesOf(2)) = 2
    /\ ~isLoading
    /\ ~sendBtnDisabled

\* the user entry of the question "<": `<p>&lt;</p>`
EscapedQuestion == << "<p>", "&", "l", "t", ";", "</p>" >>

\* C9: each accepted ask contributes exactly two permanent entries, in
\* this order: the user entry with the escaped question, appended at
\* submission, and one assistant entry (answer or error), appended at
\* completion.
C9_TwoEntriesPerAsk ==
    \A c \in 1..askCount :
        LET E == EntriesOf(c)
            first == CHOOSE i \in E : \A j \in E : i <= j
            second == CHOOSE i \in E : \A j \in E : j <= i
        IN  /\ E # {}
            /\ messages[first].role = "user"
            /\ messages[first].kind = "question"
            /\ messages[first].content = EscapedQuestion
            /\ IF \E a \in asks : a.call = c
               THEN Cardinality(E) = 1
               ELSE /\ Cardinality(E) = 2
                    /\ messages[second].role = "assistant"
                    /\ messages[second].kind \in {"answer", "error"}

\* two asks have completed, one with an answer and one with an error
C9_Witness ==
    /\ askCount = 2
    /\ asks = {}
    /\ \E i, j \in 1..Len(messages) :
          /\ messages[i].kind = "answer"
          /\ messages[j].kind = "error"

\* C10: a load triggered with a path that is empty after trimming is
\* rejected locally: the status becomes 'error', no request is issued, no
\* entry is appended, and the session state is unchanged.
C10_EmptyPathRejected ==
    [][ \A v \in PathInputs :
          (LoadRepository(v) /\ Trim(v) = <<>>) =>
              /\ repoStatus'.class = "error"
              /\ UNCHANGED << loads, asks, messages, repositoryLoaded,
                              isLoading, currentPath >> ]_vars

\* an empty path has just been rejected while an ask was in flight
C10_Witness ==
    /\ repoStatus = updateRepoStatus("error", <<"Please enter a repository path">>)
    /\ timers > 0
    /\ isLoading

\* the outcomes of POST /ask that end in the catch block
AskFailures == AskOutcomes \ {"ok"}

Permanent(log) == SelectSeq(log, LAMBDA e : ~IsTyping(e))

\* C12: the log is append-only apart from the typing placeholder: no step
\* removes or changes a user or assistant entry, and a step can only add
\* such entries after the ones that are there, so their order in the log
\* is the order in which they were appended.
C12_AppendOnly ==
    [][ /\ Len(Permanent(messages)) <= Len(Permanent(messages'))
        /\ SubSeq(Permanent(messages'), 1, Len(Permanent(messages)))
              = Permanent(messages) ]_vars

\* an ask has completed whose placeholder was not the tail of the log: a
\* load entry had been appended after it, between the question and the
\* terminal entry of the ask, and all three are in the log
C12_Witness ==
    /\ asks = {}
    /\ \E i, j, k \in 1..Len(messages) :
          /\ i < j
          /\ j < k
          /\ messages[i].kind = "question"
          /\ messages[j].kind \in {"loadOk", "loadFail"}
          /\ messages[k].kind \in {"answer", "error"}
          /\ messages[k].call = messages[i].call

\* the status showError leaves for the one error loadRepository reports
\* with it
EmptyPathStatus ==
    updateRepoStatus("error", <<"Please enter a repository path">>)

\* C13: the timed reversion is cancellable: when, after the error and
\* before its timer fires, another action has set the status (a load was
\* started, or a load failed), the status is no longer the one showError
\* left, and the timer firing does not overwrite it.
C13_ReversionIsCancelled ==
    [][ (TimerFire /\ repoStatus # EmptyPathStatus)
            => repoStatus' = repoStatus ]_vars

C15_OneLoadInFlight == Cardinality(loads) <= 1

\* C15: the load path has no reentrancy guard: every click on the load
\* button or Enter in the path input with a path that is not empty after
\* trimming issues one more POST /load and shows the 'loading' status,
\* whether or not an earlier load is still in flight.
C15_EveryTriggerLoads ==
    [][ \A v \in PathInputs :
          (LoadRepository(v) /\ Trim(v) # <<>>) =>
              /\ Cardinality(loads') = Cardinality(loads) + 1
              /\ \A l \in loads : l \in loads'
              /\ \E l \in loads' : l \notin loads /\ l.path = Trim(v)
              /\ repoStatus'.class = "loading" ]_vars

\* a second load was triggered before the first completed: both are in
\* flight
C15_Witness ==
    /\ Cardinality(loads) = 2
    /\ repoStatus.class = "loading"

\* C16: the submit control is disabled in every state in which isLoading
\* is true: from the moment an ask is accepted until its completion
\* handler has run, no other handler (load success, bootstrap reply)
\* enables it again.
C16_SubmitDisabledWhileLoading == isLoading => sendBtnDisabled

\* positions of the typing placeholders in the log
TypingEntries == { i \in 1..Len(messages) : IsTyping(messages[i]) }

\* C18: in every state between two handlers, a typing placeholder is in
\* the log exactly when isLoading is true, and the log never holds more
\* than one placeholder.
C18_TypingIffLoading ==
    /\ isLoading <=> TypingEntries # {}
    /\ Cardinality(TypingEntries) <= 1

\* an ask is in flight and a load has completed since it was accepted: the
\* one placeholder of the log is followed by the entry of the load
C18_Witness ==
    /\ isLoading
    /\ Cardinality(TypingEntries) = 1
    /\ \E i \in TypingEntries :
          /\ i < Len(messages)
          /\ messages[Len(messages)].kind \in {"loadOk", "loadFail"}

\* C19: the status is 'loading' only while at least one POST /load is in
\* flight: once every load that was issued has completed, in whatever
\* way, the status is not left at 'loading'.
C19_LoadingHasLoad == repoStatus.class = "loading" => loads # {}

\* a load has completed and a later one is in flight: the status is
\* 'loading' again
C19_Witness ==
    /\ repoStatus.class = "loading"
    /\ loadCount = 2
    /\ Cardinality(loads) = 1
    /\ \E l \in loads : l.call = 2

\* C20: a bootstrap status reply that arrives after a load of the user has
\* succeeded does not overwrite the result of that load: currentPath and
\* the 'Loaded: ...' status keep the path of the user.
C20_LateReplyKeepsLoad ==
    [][ \A o \in StatusOutcomes, p \in ServerPaths :
          ( /\ StatusReply(o, p)
            /\ \E i \in 1..Len(messages) : messages[i].kind = "loadOk" )
          => UNCHANGED << currentPath, repoStatus >> ]_vars

(* ====================== properties of the renderer ===================== *)
\* position of the first opening fence line of s that has a closing fence,
\* 0 when s has no fenced code block
FirstBlock(s) ==
    LET I == { i \in 1..Len(s) : FenceClose(SubSeq(s, i, Len(s))) # 0 }
    IN  IF I = {} THEN 0 ELSE CHOOSE i \in I : \A j \in I : i <= j

\* the characters between the fences of the first code block of s
FirstBody(s) ==
    LET t == SubSeq(s, FirstBlock(s), Len(s))
    IN  SubSeq(t, FenceBodyStart(t), FenceClose(t) - 1)

\* p occurs in s
Contains(s, p) == IndexOf(s, p, 1) # 0

\* C17: the text of a fenced code block is preserved verbatim: for every
\* answer with a triple-backtick block, the characters between the fences
\* are unchanged inside the block-code markup of what formatAnswer
\* returns; the later rules do not rewrite them.
C17_CodeBlockVerbatim ==
    (answerHtml # Null /\ FirstBlock(answer) # 0)
        => Contains(answerHtml,
                    << "<pre><code>" >> \o FirstBody(answer)
                                       \o << "</code></pre>" >>)

====
